---- MODULE Spec2Model ----
(***************************************************************************)
(* Model of shopware-cli's extension package (PlatformPlugin: construction, *)
(* name and version-constraint resolution, validation with the remote PHP   *)
(* syntax-check tier), of shop.ReadConfig and of the admin-build command.   *)
(*                                                                          *)
(* Strings the code takes apart (class names, version and constraint        *)
(* strings, interpreter versions) are sequences of one-character strings;   *)
(* strings the code only passes along (messages) are TLA+ strings.          *)
(***************************************************************************)
EXTENDS Integers, Sequences, FiniteSets, TLC

VARIABLES
    disk,          \* the extension directory on disk: composer.json, icon files, extension config
    plugin,        \* the *PlatformPlugin newPlatformPlugin returned, or Nil
    newErr,        \* the error newPlatformPlugin returned, or Nil
    ctx,           \* the ValidationContext: [errors, warnings]
    pc,            \* position of the validation run
    marks,         \* lengths of ctx.errors / ctx.warnings at the tier boundaries of the run
    posts,         \* number of POSTs issued to the syntax-check endpoint in the run
    postResp,      \* what the POST came back with: None, or Some([err, status, body])
    phpVersion,    \* the interpreter version getPhpVersion returned in the run, or Nil
    lookup,        \* how the interpreter-version GET ended: "none", "pending", "neterr", "answered"
    ctxDone,       \* whether the caller's context expired while the lookup was pending: "no", "lookup"
    prev,          \* the previous validation pass: None, or Some([plugin, files, errors])
    constraintRes, \* result of PlatformPlugin.GetShopwareVersionConstraint, or Nil
    nameRes,       \* result of PlatformPlugin.GetName, or Nil
    phpIn,         \* input of getPhpVersion: [resp, constraint]
    phpRes,        \* result of getPhpVersion, or Nil
    cfgIn,         \* input of shop.ReadConfig: [stat, read, lines, env, allowFallback]
    cfgRes,        \* outcome of shop.ReadConfig, or Nil
    cmdIn,         \* admin-build: arguments and the outcomes of the collaborators
    cmdPc,         \* admin-build: position in RunE
    cmdLog,        \* admin-build: external steps invoked so far, in order
    cmdRes         \* admin-build: the value RunE returned, or Nil

vars == <<disk, plugin, newErr, ctx, pc, marks, posts, postResp, phpVersion, lookup, ctxDone,
          prev, constraintRes, nameRes, phpIn, phpRes, cfgIn, cfgRes,
          cmdIn, cmdPc, cmdLog, cmdRes>>

validateVars == <<disk, plugin, newErr, ctx, pc, marks, posts, postResp, phpVersion, lookup,
                  ctxDone, prev>>
phpVars == <<phpIn, phpRes>>
cfgVars == <<cfgIn, cfgRes>>
cmdVars == <<cmdIn, cmdPc, cmdLog, cmdRes>>

\* a nil error; a nil pointer is the empty sequence, a set one the sequence of its target
Nil == "nil"
None == <<>>
Some(x) == <<x>>
IsNil(o) == Len(o) = 0
Deref(o) == o[1]

(***************************************************************************)
(* Bounds of the model.                                                     *)
(***************************************************************************)
MaxDeviations == 2   \* how many ways the extension directory differs from a complete one
MaxClassLen == 4     \* characters in extra.shopware-plugin-class
MaxTable == 2        \* entries of the interpreter-version lookup table
MaxErrors == 2       \* entries of the syntax checker's error list
MaxLines == 2        \* lines of the project configuration file
MaxExt == 3          \* asset sources the admin build finds

(***************************************************************************)
(* Strings as character sequences.                                          *)
(***************************************************************************)
Digits == {"0", "1", "2", "3", "4", "5", "6", "7", "8", "9"}

DigitVal(c) ==
    CASE c = "0" -> 0 [] c = "1" -> 1 [] c = "2" -> 2 [] c = "3" -> 3 [] c = "4" -> 4
      [] c = "5" -> 5 [] c = "6" -> 6 [] c = "7" -> 7 [] c = "8" -> 8 [] c = "9" -> 9

\* strings.Split(s, sep) for a one-character separator: n separators give n+1 segments
RECURSIVE SplitFrom(_, _, _, _)
SplitFrom(s, sep, i, cur) ==
    IF i > Len(s) THEN <<cur>>
    ELSE IF s[i] = sep THEN <<cur>> \o SplitFrom(s, sep, i + 1, <<>>)
    ELSE SplitFrom(s, sep, i + 1, Append(cur, s[i]))

Split(s, sep) == SplitFrom(s, sep, 1, <<>>)

IsNumeric(seg) == Len(seg) > 0 /\ \A i \in 1..Len(seg) : seg[i] \in Digits

RECURSIVE NatOf(_)
NatOf(seg) ==
    IF Len(seg) = 0 THEN 0
    ELSE 10 * NatOf(SubSeq(seg, 1, Len(seg) - 1)) + DigitVal(seg[Len(seg)])

HasPrefix(s, p) == Len(s) >= Len(p) /\ SubSeq(s, 1, Len(p)) = p

(***************************************************************************)
(* package version: versions and constraints.                               *)
(***************************************************************************)
VersionSegments == 4

\* version.NewVersion: dot-separated numeric segments, padded with zeros
NewVersion(s) ==
    LET segs == Split(s, ".")
    IN  IF Len(segs) <= VersionSegments /\ \A i \in 1..Len(segs) : IsNumeric(segs[i])
        THEN [ok |-> TRUE,
              v |-> [i \in 1..VersionSegments |->
                        IF i <= Len(segs) THEN NatOf(segs[i]) ELSE 0]]
        ELSE [ok |-> FALSE, err |-> "Malformed version"]

\* -1, 0, 1 as a is below, equal to, above b
RECURSIVE CompareFrom(_, _, _)
CompareFrom(a, b, i) ==
    IF i > VersionSegments THEN 0
    ELSE IF a[i] < b[i] THEN -1
    ELSE IF a[i] > b[i] THEN 1
    ELSE CompareFrom(a, b, i + 1)

Compare(a, b) == CompareFrom(a, b, 1)

\* one comma-separated part of a constraint: an operator and a version
ParsePart(part) ==
    LET op == IF HasPrefix(part, <<">", "=">>) THEN ">="
              ELSE IF HasPrefix(part, <<"<", "=">>) THEN "<="
              ELSE IF HasPrefix(part, <<">">>) THEN ">"
              ELSE IF HasPrefix(part, <<"<">>) THEN "<"
              ELSE "="
        skip == IF op \in {">=", "<="} THEN 2
                ELSE IF HasPrefix(part, <<"=">>) \/ op \in {">", "<"} THEN 1
                ELSE 0
        ver == NewVersion(SubSeq(part, skip + 1, Len(part)))
    IN  IF ver.ok THEN [ok |-> TRUE, op |-> op, v |-> ver.v] ELSE [ok |-> FALSE]

\* version.NewConstraint: every part must parse, else construction fails
NewConstraint(s) ==
    LET parts == Split(s, ",")
        parsed == [i \in 1..Len(parts) |-> ParsePart(parts[i])]
    IN  IF \A i \in 1..Len(parts) : parsed[i].ok
        THEN [ok |-> TRUE,
              constraint |-> [i \in 1..Len(parts) |-> [op |-> parsed[i].op, v |-> parsed[i].v]]]
        ELSE [ok |-> FALSE, err |-> "Malformed constraint"]

Holds(bound, v) ==
    LET c == Compare(v, bound.v)
    IN  CASE bound.op = ">=" -> c >= 0
          [] bound.op = "<=" -> c <= 0
          [] bound.op = ">"  -> c > 0
          [] bound.op = "<"  -> c < 0
          [] bound.op = "="  -> c = 0

\* Constraints.Check: the version lies inside every bound
Check(constraint, v) == \A i \in 1..Len(constraint) : Holds(constraint[i], v)

(***************************************************************************)
(* The extension directory and the manifest (composer.json).                *)
(***************************************************************************)
ComposerTypePlugin == "shopware-platform-plugin"

EmptyMap == [k \in {} |-> ""]

MapLen(m) == Cardinality(DOMAIN m)

\* constraint strings
GE65_LT66 == <<">", "=", "6", ".", "5", ",", "<", "6", ".", "6">>
GE64 == <<">", "=", "6", ".", "4">>
LT65 == <<"<", "6", ".", "5">>
EQ660 == <<"6", ".", "6", ".", "0">>
BadConstraint == <<">", "=", "a", "b", "c">>
HalfBadConstraint == <<">", "=", "6", ".", "5", ",", "<">>
EmptyString == <<>>

DefaultIcon == "src/Resources/config/plugin.png"
CustomIcon == "icon.png"

Locales == [k \in {"de-DE", "en-GB"} |-> "text"]

\* a complete composer.json, as the JSON object on disk
BaseJson ==
    [name |-> "swag/demo",
     description |-> "Demo plugin",
     version |-> "1.0.0",
     type |-> ComposerTypePlugin,
     license |-> "MIT",
     authors |-> <<[name |-> "shopware AG", homepage |-> "https://shopware.com"]>>,
     require |-> [k \in {"shopware/core"} |-> GE65_LT66],
     extra |-> [label |-> Locales,
                description |-> Locales,
                manufacturerLink |-> Locales,
                supportLink |-> Locales]
               @@ ("shopware-plugin-class" :> <<"S", "\\", "P">>),
     autoload |-> ("psr-4" :> [k \in {"Swag\\Demo\\"} |-> "src/"])]

\* a JSON object without one of its keys
Drop(obj, key) == [k \in DOMAIN obj \ {key} |-> obj[k]]

\* a JSON object with one key set
Put(obj, key, val) == [k \in DOMAIN obj \cup {key} |-> IF k = key THEN val ELSE obj[k]]

\* what json.Unmarshal leaves in a struct field: the value of the key, or the zero value
Field(obj, key, zero) == IF key \in DOMAIN obj THEN obj[key] ELSE zero

\* json.Unmarshal into platformComposerJson
DecodeComposer(obj) ==
    LET extra == Field(obj, "extra", EmptyMap)
        autoload == Field(obj, "autoload", EmptyMap)
    IN  [Name |-> Field(obj, "name", ""),
         Description |-> Field(obj, "description", ""),
         Version |-> Field(obj, "version", ""),
         Type |-> Field(obj, "type", ""),
         License |-> Field(obj, "license", ""),
         Authors |-> Field(obj, "authors", <<>>),
         Require |-> Field(obj, "require", EmptyMap),
         Extra |-> [ShopwarePluginClass |-> Field(extra, "shopware-plugin-class", EmptyString),
                    Label |-> Field(extra, "label", EmptyMap),
                    Description |-> Field(extra, "description", EmptyMap),
                    ManufacturerLink |-> Field(extra, "manufacturerLink", EmptyMap),
                    SupportLink |-> Field(extra, "supportLink", EmptyMap),
                    PluginIcon |-> Field(extra, "plugin-icon", "")],
         Autoload |-> [Psr0 |-> Field(autoload, "psr-0", EmptyMap),
                       Psr4 |-> Field(autoload, "psr-4", EmptyMap)]]

\* the extension's own configuration, as readExtensionConfig returns it
ExtConfig(override) == [Build |-> [ShopwareVersionConstraint |-> override]]

BaseDisk ==
    [stat |-> "ok",
     read |-> "ok",
     json |-> [kind |-> "object", obj |-> BaseJson],
     files |-> {DefaultIcon, CustomIcon},
     theme |-> "none",
     extConfig |-> [err |-> Nil, cfg |-> Some(ExtConfig(EmptyString))]]

(***************************************************************************)
(* PlatformPlugin.                                                          *)
(***************************************************************************)
\* mutant: the composer type is not compared
newPlatformPlugin_NoTypeCheck(d) ==
    IF d.stat # "ok" THEN [plugin |-> None, err |-> "stat composer.json: " \o d.stat]
    ELSE IF d.read # "ok" THEN [plugin |-> None, err |-> "newPlatformPlugin: " \o d.read]
    ELSE IF d.json.kind # "object"
    THEN [plugin |-> None, err |-> "newPlatformPlugin: invalid json"]
    ELSE IF d.extConfig.err # Nil
    THEN [plugin |-> None, err |-> "newPlatformPlugin: " \o d.extConfig.err]
    ELSE [plugin |-> Some([composer |-> DecodeComposer(d.json.obj),
                           path |-> "/ext",
                           config |-> d.extConfig.cfg]),
          err |-> Nil]

\* newPlatformPlugin: the plugin and a nil error, or no plugin and the error
newPlatformPlugin(d) ==
    IF d.stat # "ok" THEN [plugin |-> None, err |-> "stat composer.json: " \o d.stat]
    ELSE IF d.read # "ok" THEN [plugin |-> None, err |-> "newPlatformPlugin: " \o d.read]
    ELSE IF d.json.kind # "object"
    THEN [plugin |-> None, err |-> "newPlatformPlugin: invalid json"]
    ELSE LET composerJson == DecodeComposer(d.json.obj)
         IN  IF composerJson.Type # ComposerTypePlugin
             THEN [plugin |-> None,
                   err |-> "newPlatformPlugin: composer.json is not type of shopware-platform-plugin"]
             ELSE IF d.extConfig.err # Nil
             THEN [plugin |-> None, err |-> "newPlatformPlugin: " \o d.extConfig.err]
             ELSE [plugin |-> Some([composer |-> composerJson,
                                    path |-> "/ext",
                                    config |-> d.extConfig.cfg]),
                   err |-> Nil]

\* PlatformPlugin.GetName: the last element of strings.Split(class, "\\")
GetName(p) ==
    IF p.composer.Extra.ShopwarePluginClass = EmptyString
    THEN [name |-> EmptyString, err |-> "extension name is empty"]
    ELSE LET parts == Split(p.composer.Extra.ShopwarePluginClass, "\\")
         IN  [name |-> parts[Len(parts)], err |-> Nil]

\* the (*version.Constraints, error) pair a version.NewConstraint result is returned as
FromNewConstraint(r) ==
    IF r.ok THEN [constraint |-> Some(r.constraint), err |-> Nil]
    ELSE [constraint |-> None, err |-> r.err]

\* mutant: the manifest requirement is read first, the override only without it
GetShopwareVersionConstraint_ManifestFirst(p) ==
    IF "shopware/core" \in DOMAIN p.composer.Require
    THEN FromNewConstraint(NewConstraint(p.composer.Require["shopware/core"]))
    ELSE IF ~IsNil(p.config) /\ Deref(p.config).Build.ShopwareVersionConstraint # EmptyString
    THEN FromNewConstraint(NewConstraint(Deref(p.config).Build.ShopwareVersionConstraint))
    ELSE [constraint |-> None, err |-> "require.shopware/core is required"]

GetShopwareVersionConstraint(p) ==
    IF ~IsNil(p.config) /\ Deref(p.config).Build.ShopwareVersionConstraint # EmptyString
    THEN FromNewConstraint(NewConstraint(Deref(p.config).Build.ShopwareVersionConstraint))
    ELSE IF "shopware/core" \notin DOMAIN p.composer.Require
    THEN [constraint |-> None, err |-> "require.shopware/core is required"]
    ELSE FromNewConstraint(NewConstraint(p.composer.Require["shopware/core"]))

(***************************************************************************)
(* Values the groups of variables hold while another group is exercised.    *)
(***************************************************************************)
EmptyCtx == [errors |-> <<>>, warnings |-> <<>>]
NoMarks == [structural |-> 0, theme |-> 0, warnings |-> 0]

ValidateIdle ==
    /\ disk = BaseDisk
    /\ plugin = None
    /\ newErr = Nil
    /\ ctx = EmptyCtx
    /\ pc = "idle"
    /\ marks = NoMarks
    /\ posts = 0
    /\ postResp = None
    /\ phpVersion = None
    /\ lookup = "none"
    /\ ctxDone = "no"
    /\ prev = None

MethodsIdle == constraintRes = None /\ nameRes = None

PhpIdle == phpIn = None /\ phpRes = None

CfgIdle == cfgIn = None /\ cfgRes = None

CmdIdle == cmdIn = None /\ cmdPc = "idle" /\ cmdLog = <<>> /\ cmdRes = None

(***************************************************************************)
(* SpecPlugin: GetName and GetShopwareVersionConstraint on plugins whose    *)
(* class, manifest requirement and build-time override range over small     *)
(* sets.                                                                    *)
(***************************************************************************)
ConstraintStrings == {GE65_LT66, GE64, LT65, EQ660, BadConstraint, HalfBadConstraint}

\* p.config: nil, or a configuration with or without the override
Configs == {None} \cup {Some(ExtConfig(s)) : s \in ConstraintStrings \cup {EmptyString}}

\* p.composer.Require: without shopware/core, or with it
Requires ==
    {EmptyMap, [k \in {"php"} |-> GE64]}
    \cup {[k \in {"shopware/core"} |-> s] : s \in ConstraintStrings}
    \cup {[k \in {"php", "shopware/core"} |-> s] : s \in {GE64}}

ClassAlphabet == {"A", "b", "\\"}

RECURSIVE StringsUpTo(_, _)
StringsUpTo(alphabet, n) ==
    IF n = 0 THEN {<<>>}
    ELSE LET shorter == StringsUpTo(alphabet, n - 1)
         IN  shorter \cup {Append(s, c) : s \in shorter, c \in alphabet}

BasePlugin ==
    [composer |-> DecodeComposer(BaseJson), path |-> "/ext", config |-> Some(ExtConfig(EmptyString))]

MethodPlugins ==
    {[BasePlugin EXCEPT !.composer.Require = r, !.config = c] : r \in Requires, c \in Configs}
    \cup {[BasePlugin EXCEPT !.composer.Extra.ShopwarePluginClass = s] :
            s \in StringsUpTo(ClassAlphabet, MaxClassLen)}

InitMethods ==
    /\ disk = BaseDisk
    /\ plugin \in {Some(p) : p \in MethodPlugins}
    /\ newErr = Nil
    /\ ctx = EmptyCtx
    /\ pc = "idle"
    /\ marks = NoMarks
    /\ posts = 0
    /\ postResp = None
    /\ phpVersion = None
    /\ lookup = "none"
    /\ ctxDone = "no"
    /\ prev = None
    /\ MethodsIdle /\ PhpIdle /\ CfgIdle /\ CmdIdle

CallGetName ==
    /\ pc = "idle"
    /\ ~IsNil(plugin)
    /\ IsNil(nameRes)
    /\ nameRes' = Some(GetName(Deref(plugin)))
    /\ UNCHANGED <<validateVars, constraintRes, phpVars, cfgVars, cmdVars>>

CallGetShopwareVersionConstraint ==
    /\ pc = "idle"
    /\ ~IsNil(plugin)
    /\ IsNil(constraintRes)
    /\ constraintRes' = Some(GetShopwareVersionConstraint(Deref(plugin)))
    /\ UNCHANGED <<validateVars, nameRes, phpVars, cfgVars, cmdVars>>

NextMethods == CallGetName \/ CallGetShopwareVersionConstraint

SpecPlugin == InitMethods /\ [][NextMethods]_vars

\* the two sources of the constraint, as the claims name them
OverridePresent(p) ==
    ~IsNil(p.config) /\ Deref(p.config).Build.ShopwareVersionConstraint # EmptyString
Override(p) == Deref(p.config).Build.ShopwareVersionConstraint
RequirementPresent(p) == "shopware/core" \in DOMAIN p.composer.Require
Requirement(p) == p.composer.Require["shopware/core"]
Usable(s) == NewConstraint(s).ok
Built(s) == Some(NewConstraint(s).constraint)

\* C1 (as claimed): GetShopwareVersionConstraint returns the override's constraint when the
\* override is present, the manifest requirement's when it is not, and fails only if neither
\* source yields a usable constraint (a malformed override next to a usable requirement
\* does not make it fail).
C1_Original ==
    ~IsNil(constraintRes) =>
        LET p == Deref(plugin)
            r == Deref(constraintRes)
        IN  /\ (OverridePresent(p) /\ Usable(Override(p))) =>
                    (r.err = Nil /\ r.constraint = Built(Override(p)))
            /\ (~OverridePresent(p) /\ RequirementPresent(p) /\ Usable(Requirement(p))) =>
                    (r.err = Nil /\ r.constraint = Built(Requirement(p)))
            /\ r.err # Nil <=>
                    /\ ~(OverridePresent(p) /\ Usable(Override(p)))
                    /\ ~(RequirementPresent(p) /\ Usable(Requirement(p)))

\* C1 (amended): GetShopwareVersionConstraint returns the override's constraint when a
\* well-formed override is present, whatever the manifest requires, and the manifest
\* requirement's constraint when no override is present; it fails exactly when the override
\* is present and malformed (the manifest requirement is then never consulted), or when no
\* override is present and the manifest requirement is missing or malformed; a failure
\* returns no constraint.
C1_Amended ==
    ~IsNil(constraintRes) =>
        LET p == Deref(plugin)
            r == Deref(constraintRes)
        IN  /\ (OverridePresent(p) /\ Usable(Override(p))) =>
                    (r.err = Nil /\ r.constraint = Built(Override(p)))
            /\ (~OverridePresent(p) /\ RequirementPresent(p) /\ Usable(Requirement(p))) =>
                    (r.err = Nil /\ r.constraint = Built(Requirement(p)))
            /\ r.err # Nil <=>
                    \/ OverridePresent(p) /\ ~Usable(Override(p))
                    \/ ~OverridePresent(p) /\ ~(RequirementPresent(p) /\ Usable(Requirement(p)))
            /\ r.err # Nil => IsNil(r.constraint)

\* C1 witness: an override and a manifest requirement that build different constraints,
\* and the call returned the override's
C1_Witness ==
    /\ ~IsNil(constraintRes)
    /\ OverridePresent(Deref(plugin)) /\ Usable(Override(Deref(plugin)))
    /\ RequirementPresent(Deref(plugin)) /\ Usable(Requirement(Deref(plugin)))
    /\ Built(Override(Deref(plugin))) # Built(Requirement(Deref(plugin)))
    /\ Deref(constraintRes).constraint = Built(Override(Deref(plugin)))

\* C8: GetName either fails or returns a non-empty name, the last backslash-separated
\* segment of the class; it never returns an empty name with a nil error.
C8_NameNonEmpty ==
    ~IsNil(nameRes) =>
        LET r == Deref(nameRes)
            parts == Split(Deref(plugin).composer.Extra.ShopwarePluginClass, "\\")
        IN  \/ r.err # Nil
            \/ r.name # EmptyString /\ r.name = parts[Len(parts)]

(***************************************************************************)
(* Extension directories: a complete one, changed in up to MaxDeviations    *)
(* ways.                                                                    *)
(***************************************************************************)
\* the order the deviations are applied in (a later one wins over an earlier one)
DeviationOrder ==
    <<"no_name", "no_type", "other_type", "no_description", "no_license", "no_version",
      "no_authors", "no_require", "require_other_only", "require_malformed",
      "no_label_de", "no_description_en", "no_manufacturerLink_de", "no_supportLink_en",
      "no_extra", "no_autoload", "psr0_only", "custom_icon",
      "no_default_icon_file", "no_custom_icon_file", "broken_theme",
      "config_error", "config_nil", "config_override", "config_override_malformed",
      "malformed_json", "unreadable", "missing">>

Deviations == {DeviationOrder[i] : i \in 1..Len(DeviationOrder)}

DropLocale(obj, field, locale) ==
    IF "extra" \in DOMAIN obj /\ field \in DOMAIN obj["extra"]
    THEN Put(obj, "extra", Put(obj["extra"], field, Drop(obj["extra"][field], locale)))
    ELSE obj

DeviateJson(obj, dev) ==
    CASE dev = "no_name" -> Drop(obj, "name")
      [] dev = "no_type" -> Drop(obj, "type")
      [] dev = "other_type" -> Put(obj, "type", "shopware-app")
      [] dev = "no_description" -> Drop(obj, "description")
      [] dev = "no_license" -> Drop(obj, "license")
      [] dev = "no_version" -> Drop(obj, "version")
      [] dev = "no_authors" -> Put(obj, "authors", <<>>)
      [] dev = "no_require" -> Drop(obj, "require")
      [] dev = "require_other_only" -> Put(obj, "require", [k \in {"php"} |-> GE64])
      [] dev = "require_malformed" ->
            Put(obj, "require", [k \in {"shopware/core"} |-> BadConstraint])
      [] dev = "no_label_de" -> DropLocale(obj, "label", "de-DE")
      [] dev = "no_description_en" -> DropLocale(obj, "description", "en-GB")
      [] dev = "no_manufacturerLink_de" -> DropLocale(obj, "manufacturerLink", "de-DE")
      [] dev = "no_supportLink_en" -> DropLocale(obj, "supportLink", "en-GB")
      [] dev = "no_extra" -> Drop(obj, "extra")
      [] dev = "no_autoload" -> Drop(obj, "autoload")
      [] dev = "psr0_only" ->
            Put(obj, "autoload", ("psr-0" :> [k \in {"Swag_Demo"} |-> "src/"]))
      [] dev = "custom_icon" ->
            IF "extra" \in DOMAIN obj
            THEN Put(obj, "extra", Put(obj["extra"], "plugin-icon", CustomIcon))
            ELSE obj
      [] OTHER -> obj

Deviate(d, dev) ==
    CASE dev = "no_default_icon_file" -> [d EXCEPT !.files = @ \ {DefaultIcon}]
      [] dev = "no_custom_icon_file" -> [d EXCEPT !.files = @ \ {CustomIcon}]
      [] dev = "broken_theme" -> [d EXCEPT !.theme = "broken"]
      [] dev = "config_error" -> [d EXCEPT !.extConfig = [err |-> "invalid yaml", cfg |-> None]]
      [] dev = "config_nil" -> [d EXCEPT !.extConfig = [err |-> Nil, cfg |-> None]]
      [] dev = "config_override" ->
            [d EXCEPT !.extConfig = [err |-> Nil, cfg |-> Some(ExtConfig(GE64))]]
      [] dev = "config_override_malformed" ->
            [d EXCEPT !.extConfig = [err |-> Nil, cfg |-> Some(ExtConfig(BadConstraint))]]
      [] dev = "malformed_json" -> [d EXCEPT !.json = [kind |-> "malformed", obj |-> EmptyMap]]
      [] dev = "unreadable" -> [d EXCEPT !.read = "permission denied"]
      [] dev = "missing" -> [d EXCEPT !.stat = "no such file or directory"]
      [] OTHER -> [d EXCEPT !.json = [kind |-> "object", obj |-> DeviateJson(d.json.obj, dev)]]

RECURSIVE DeviateFrom(_, _, _)
DeviateFrom(d, devs, i) ==
    IF i > Len(DeviationOrder) THEN d
    ELSE DeviateFrom(IF DeviationOrder[i] \in devs THEN Deviate(d, DeviationOrder[i]) ELSE d,
                     devs, i + 1)

RECURSIVE SubsetsUpTo(_, _)
SubsetsUpTo(S, n) ==
    IF n = 0 THEN {{}}
    ELSE LET smaller == SubsetsUpTo(S, n - 1)
         IN  smaller \cup {t \cup {x} : t \in smaller, x \in S}

Disks == {DeviateFrom(BaseDisk, devs, 1) : devs \in SubsetsUpTo(Deviations, MaxDeviations)}

(***************************************************************************)
(* PlatformPlugin.Validate: the structural tier.                            *)
(***************************************************************************)
AddError(c, msg) == [c EXCEPT !.errors = Append(@, msg)]
AddWarning(c, msg) == [c EXCEPT !.warnings = Append(@, msg)]

RECURSIVE AddErrors(_, _)
AddErrors(c, msgs) ==
    IF Len(msgs) = 0 THEN c ELSE AddErrors(AddError(c, Head(msgs)), Tail(msgs))

When(cond, msg) == IF cond THEN <<msg>> ELSE <<>>

\* the message "Key ... is required"; the code quotes the key in backquotes, which a
\* string of this language cannot hold, so the model quotes it in apostrophes
KeyRequired(key) == "Key '" \o key \o "' is required"

requiredKeys == <<"de-DE", "en-GB">>

\* one turn of the loop over requiredKeys
LocaleErrors(p, key) ==
    When(key \notin DOMAIN p.composer.Extra.Label,
         "extra.label for language " \o key \o " is required")
    \o When(key \notin DOMAIN p.composer.Extra.Description,
            "extra.description for language " \o key \o " is required")
    \o When(key \notin DOMAIN p.composer.Extra.ManufacturerLink,
            "extra.manufacturerLink for language " \o key \o " is required")
    \o When(key \notin DOMAIN p.composer.Extra.SupportLink,
            "extra.supportLink for language " \o key \o " is required")

RECURSIVE LocaleLoop(_, _)
LocaleLoop(p, i) ==
    IF i > Len(requiredKeys) THEN <<>>
    ELSE LocaleErrors(p, requiredKeys[i]) \o LocaleLoop(p, i + 1)

PluginIconOf(p) ==
    IF p.composer.Extra.PluginIcon = "" THEN DefaultIcon ELSE p.composer.Extra.PluginIcon

\* mutant: the check of the version is left out
StructuralErrors_NoVersionCheck(p, files) ==
    When(p.composer.Name = "", KeyRequired("name"))
    \o (IF p.composer.Type = "" THEN <<KeyRequired("type")>>
        ELSE When(p.composer.Type # ComposerTypePlugin,
                  "The composer type must be shopware-platform-plugin"))
    \o When(p.composer.Description = "", KeyRequired("description"))
    \o When(p.composer.License = "", KeyRequired("license"))
    \o When(Len(p.composer.Authors) = 0, KeyRequired("authors"))
    \o (IF MapLen(p.composer.Require) = 0 THEN <<KeyRequired("require")>>
        ELSE When("shopware/core" \notin DOMAIN p.composer.Require,
                  "You need to require \"shopware/core\" package"))
    \o LocaleLoop(p, 1)
    \o When(MapLen(p.composer.Autoload.Psr0) = 0 /\ MapLen(p.composer.Autoload.Psr4) = 0,
            "At least one of the properties psr-0 or psr-4 are required in the composer.json")
    \o When(PluginIconOf(p) \notin files,
            "The plugin icon " \o PluginIconOf(p) \o " does not exist")

\* the errors Validate appends before validateTheme, in order
StructuralErrors(p, files) ==
    When(p.composer.Name = "", KeyRequired("name"))
    \o (IF p.composer.Type = "" THEN <<KeyRequired("type")>>
        ELSE When(p.composer.Type # ComposerTypePlugin,
                  "The composer type must be shopware-platform-plugin"))
    \o When(p.composer.Description = "", KeyRequired("description"))
    \o When(p.composer.License = "", KeyRequired("license"))
    \o When(p.composer.Version = "", KeyRequired("version"))
    \o When(Len(p.composer.Authors) = 0, KeyRequired("authors"))
    \o (IF MapLen(p.composer.Require) = 0 THEN <<KeyRequired("require")>>
        ELSE When("shopware/core" \notin DOMAIN p.composer.Require,
                  "You need to require \"shopware/core\" package"))
    \o LocaleLoop(p, 1)
    \o When(MapLen(p.composer.Autoload.Psr0) = 0 /\ MapLen(p.composer.Autoload.Psr4) = 0,
            "At least one of the properties psr-0 or psr-4 are required in the composer.json")
    \o When(PluginIconOf(p) \notin files,
            "The plugin icon " \o PluginIconOf(p) \o " does not exist")

\* validateTheme: what it appends for the theme the directory holds
validateTheme(d, c) ==
    IF d.theme = "broken" THEN AddError(c, "theme.json is invalid") ELSE c

(***************************************************************************)
(* validatePHPFiles and getPhpVersion: the remote syntax-check tier.        *)
(***************************************************************************)
StatusOK == 200

\* what a write to the in-memory buffer can return: always a nil error
BufferErrors == {Nil}

\* validatePHPFiles up to the call of getPhpVersion: the archive and the form are built in
\* memory, then the extension's constraint is resolved.
\* [ctx, constraint]: constraint is None when the function has returned.
PreparePHPFiles(p, c, formErr, writeErr) ==
    IF formErr # Nil
    THEN [ctx |-> AddError(c, "Could not create form file: " \o formErr), constraint |-> None]
    ELSE IF writeErr # Nil
    THEN [ctx |-> AddError(c, "Could not write zip file to multipart form: " \o writeErr),
          constraint |-> None]
    ELSE LET r == GetShopwareVersionConstraint(p)
         IN  IF r.err # Nil
             THEN [ctx |-> AddError(c, "Could not parse shopware version constraint: " \o r.err),
                   constraint |-> None]
             ELSE [ctx |-> c, constraint |-> r.constraint]

\* json.Decode of the lookup body into map[string]string
DecodeTable(body) ==
    IF body.kind = "object" THEN [err |-> Nil, table |-> body.obj]
    ELSE [err |-> "invalid character", table |-> EmptyMap]

\* the loop over the table, in the order the map iteration happens to take
RECURSIVE PhpLoop(_, _, _, _)
PhpLoop(table, constraint, order, i) ==
    IF i > Len(order)
    THEN [v |-> EmptyString, err |-> "could not find php version for shopware version"]
    ELSE LET shopwareVersion == NewVersion(order[i])
         IN  IF ~shopwareVersion.ok THEN PhpLoop(table, constraint, order, i + 1)
             ELSE IF Check(constraint, shopwareVersion.v)
             THEN [v |-> table[order[i]], err |-> Nil]
             ELSE PhpLoop(table, constraint, order, i + 1)

\* mutant: the first key that parses is taken, whether or not it satisfies the constraint
getPhpVersion_NoCheck(resp, constraint, order) ==
    IF resp.err # Nil THEN [v |-> EmptyString, err |-> resp.err]
    ELSE LET decoded == DecodeTable(resp.body)
             parsing == SelectSeq(order, LAMBDA k : NewVersion(k).ok)
         IN  IF decoded.err # Nil THEN [v |-> EmptyString, err |-> decoded.err]
             ELSE IF Len(parsing) = 0
             THEN [v |-> EmptyString, err |-> "could not find php version for shopware version"]
             ELSE [v |-> decoded.table[parsing[1]], err |-> Nil]

\* getPhpVersion, given what the GET came back with and the iteration order of the map
getPhpVersion(resp, constraint, order) ==
    IF resp.err # Nil THEN [v |-> EmptyString, err |-> resp.err]
    ELSE LET decoded == DecodeTable(resp.body)
         IN  IF decoded.err # Nil THEN [v |-> EmptyString, err |-> decoded.err]
             ELSE PhpLoop(decoded.table, constraint, order, 1)

\* the orders a map with these keys can be iterated in
Orders(keys) ==
    {o \in [1..Cardinality(keys) -> keys] : \A i, j \in 1..Cardinality(keys) : o[i] = o[j] => i = j}

\* the orders the body's table can be iterated in (none to choose from when there is no table)
OrdersOf(resp) ==
    IF resp.err = Nil /\ resp.body.kind = "object" THEN Orders(DOMAIN resp.body.obj) ELSE {<<>>}

ControlChars == {"\n", "\t", "\r"}

\* http.NewRequestWithContext: the URL is parsed, and one with a control character is refused
NewRequestErr(version) ==
    IF \E i \in 1..Len(version) : version[i] \in ControlChars
    THEN "net/url: invalid control character in URL"
    ELSE Nil

\* mutant: a failed lookup is reported as an error
AfterGetPhpVersion_AsError(c, r) ==
    IF r.err # Nil
    THEN [ctx |-> AddError(c, "Could not find min php version for plugin: " \o r.err),
          phpVersion |-> None, send |-> FALSE]
    ELSE IF NewRequestErr(r.v) # Nil
    THEN [ctx |-> AddWarning(c, "Could not create request to validate php files: "
                                    \o NewRequestErr(r.v)),
          phpVersion |-> Some(r.v), send |-> FALSE]
    ELSE [ctx |-> c, phpVersion |-> Some(r.v), send |-> TRUE]

\* validatePHPFiles from the return of getPhpVersion to the sending of the POST
\* [ctx, phpVersion, send]
AfterGetPhpVersion(c, r) ==
    IF r.err # Nil
    THEN [ctx |-> AddWarning(c, "Could not find min php version for plugin: " \o r.err),
          phpVersion |-> None, send |-> FALSE]
    ELSE IF NewRequestErr(r.v) # Nil
    THEN [ctx |-> AddWarning(c, "Could not create request to validate php files: "
                                    \o NewRequestErr(r.v)),
          phpVersion |-> Some(r.v), send |-> FALSE]
    ELSE [ctx |-> c, phpVersion |-> Some(r.v), send |-> TRUE]

\* json.Decode of the checker's body into phpSyntaxCheckerResult
DecodeCheckerResult(body) ==
    CASE body.kind = "empty" -> [err |-> "EOF", Errors |-> <<>>]
      [] body.kind = "malformed" -> [err |-> "invalid character", Errors |-> <<>>]
      [] body.kind = "null" -> [err |-> Nil, Errors |-> <<>>]
      [] body.kind = "object" ->
            IF "errors" \notin DOMAIN body.obj THEN [err |-> Nil, Errors |-> <<>>]
            ELSE IF body.obj["errors"].type = "null" THEN [err |-> Nil, Errors |-> <<>>]
            ELSE IF body.obj["errors"].type = "list"
            THEN [err |-> Nil, Errors |-> body.obj["errors"].list]
            ELSE [err |-> "json: cannot unmarshal " \o body.obj["errors"].type
                              \o " into Go struct field phpSyntaxCheckerResult.errors",
                  Errors |-> <<>>]

\* mutant: the body is decoded whatever the status
AfterPost_IgnoreStatus(c, resp) ==
    IF resp.err # Nil THEN AddWarning(c, "Could not validate php files: " \o resp.err)
    ELSE LET result == DecodeCheckerResult(resp.body)
         IN  IF result.err # Nil
             THEN AddWarning(c, "cannot decode php syntax checker response: " \o result.err)
             ELSE AddErrors(c, result.Errors)

\* validatePHPFiles from the return of http.DefaultClient.Do to the end
AfterPost(c, resp) ==
    IF resp.err # Nil THEN AddWarning(c, "Could not validate php files: " \o resp.err)
    ELSE IF resp.status = StatusOK THEN c
    ELSE LET result == DecodeCheckerResult(resp.body)
         IN  IF result.err # Nil
             THEN AddWarning(c, "cannot decode php syntax checker response: " \o result.err)
             ELSE AddErrors(c, result.Errors)

(***************************************************************************)
(* What the two remote endpoints can come back with.                        *)
(***************************************************************************)
V640 == <<"6", ".", "4", ".", "0">>
V650 == <<"6", ".", "5", ".", "0">>
V660 == <<"6", ".", "6", ".", "0">>
VText == <<"d", "e", "v">>
LookupKeys == {V640, V650, V660, VText}

P81 == <<"8", ".", "1">>
P82 == <<"8", ".", "2">>
PCtl == <<"8", ".", "2", "\n">>
PhpVersions == {P81, P82, PCtl}

NetErr == [err |-> "dial tcp: i/o timeout", status |-> 0, body |-> [kind |-> "empty"]]
Answer(status, body) == [err |-> Nil, status |-> status, body |-> body]

\* lookup tables with up to n entries
Tables(n) ==
    UNION {[keys -> PhpVersions] : keys \in SubsetsUpTo(LookupKeys, n)}

\* the lookup answers the validation run is exercised with
ValidateLookups ==
    {Answer(StatusOK, [kind |-> "malformed"]),
     Answer(StatusOK, [kind |-> "object", obj |-> EmptyMap]),
     Answer(StatusOK, [kind |-> "object", obj |-> (V650 :> P81 @@ V660 :> P82)]),
     Answer(StatusOK, [kind |-> "object", obj |-> (V640 :> P82 @@ VText :> P81)]),
     Answer(StatusOK, [kind |-> "object", obj |-> (V650 :> PCtl)])}

SyntaxErrors == {"Parse error on line 3", "Unexpected token on line 7"}

RECURSIVE SeqsUpTo(_, _)
SeqsUpTo(S, n) ==
    IF n = 0 THEN {<<>>}
    ELSE LET shorter == SeqsUpTo(S, n - 1)
         IN  shorter \cup {Append(q, x) : q \in shorter, x \in S}

CheckerBodies ==
    {[kind |-> "empty"], [kind |-> "malformed"], [kind |-> "null"],
     [kind |-> "object", obj |-> EmptyMap],
     [kind |-> "object", obj |-> [k \in {"errors"} |-> [type |-> "null", list |-> <<>>]]],
     [kind |-> "object", obj |-> [k \in {"errors"} |-> [type |-> "string", list |-> <<>>]]]}
    \cup {[kind |-> "object", obj |-> [k \in {"errors"} |-> [type |-> "list", list |-> l]]] :
            l \in SeqsUpTo(SyntaxErrors, MaxErrors)}

CheckerStatuses == {StatusOK, 422}

CheckerAnswers == {Answer(st, b) : st \in CheckerStatuses, b \in CheckerBodies}

(***************************************************************************)
(* Spec: discovery passes over one extension directory. Each pass           *)
(* constructs the plugin and validates it; between passes the manifest's    *)
(* version may be added or removed.                                         *)
(***************************************************************************)
Init ==
    /\ disk \in Disks
    /\ plugin = None
    /\ newErr = Nil
    /\ ctx = EmptyCtx
    /\ pc = "init"
    /\ marks = NoMarks
    /\ posts = 0
    /\ postResp = None
    /\ phpVersion = None
    /\ lookup = "none"
    /\ ctxDone = "no"
    /\ prev = None
    /\ MethodsIdle /\ PhpIdle /\ CfgIdle /\ CmdIdle

others == <<constraintRes, nameRes, phpVars, cfgVars, cmdVars>>

\* discovery calls newPlatformPlugin on the directory
Construct ==
    /\ pc = "init"
    /\ LET r == newPlatformPlugin(disk)
       IN  /\ plugin' = r.plugin
           /\ newErr' = r.err
           /\ pc' = IF r.err = Nil THEN "constructed" ELSE "skipped"
    /\ UNCHANGED <<disk, ctx, marks, posts, postResp, phpVersion, lookup, ctxDone, prev,
                   others>>

\* PlatformPlugin.Validate, up to the GET of getPhpVersion
ValidateStart ==
    /\ pc = "constructed"
    /\ \E formErr \in BufferErrors, writeErr \in BufferErrors :
         LET p == Deref(plugin)
             c1 == AddErrors(ctx, StructuralErrors(p, disk.files))
             c2 == validateTheme(disk, c1)
             r == PreparePHPFiles(p, c2, formErr, writeErr)
         IN  /\ ctx' = r.ctx
             /\ marks' = [structural |-> Len(c1.errors), theme |-> Len(c2.errors),
                          warnings |-> Len(c2.warnings)]
             /\ pc' = IF IsNil(r.constraint) THEN "done" ELSE "lookup"
             /\ lookup' = IF IsNil(r.constraint) THEN "none" ELSE "pending"
    /\ UNCHANGED <<disk, plugin, newErr, posts, postResp, phpVersion, ctxDone, prev,
                   others>>

\* the rest of validatePHPFiles once getPhpVersion's GET has come back with resp
Looked(resp, order) ==
    LET constraint == Deref(GetShopwareVersionConstraint(Deref(plugin)).constraint)
        r == AfterGetPhpVersion(ctx, getPhpVersion(resp, constraint, order))
    IN  /\ ctx' = r.ctx
        /\ phpVersion' = r.phpVersion
        /\ posts' = IF r.send THEN posts + 1 ELSE posts
        /\ pc' = IF r.send THEN "post" ELSE "done"

\* the GET is answered
LookupAnswers ==
    /\ pc = "lookup"
    /\ \E resp \in ValidateLookups : \E order \in OrdersOf(resp) : Looked(resp, order)
    /\ lookup' = "answered"
    /\ UNCHANGED <<disk, plugin, newErr, marks, postResp, ctxDone, prev, others>>

\* the GET fails at the network level
LookupFails ==
    /\ pc = "lookup"
    /\ Looked(NetErr, <<>>)
    /\ lookup' = "neterr"
    /\ UNCHANGED <<disk, plugin, newErr, marks, postResp, ctxDone, prev, others>>

\* the POST is answered
PostAnswers ==
    /\ pc = "post"
    /\ \E resp \in CheckerAnswers :
         /\ ctx' = AfterPost(ctx, resp)
         /\ postResp' = Some(resp)
    /\ pc' = "done"
    /\ UNCHANGED <<disk, plugin, newErr, marks, posts, phpVersion, lookup, ctxDone, prev,
                   others>>

\* the POST fails at the network level
PostFails ==
    /\ pc = "post"
    /\ ctx' = AfterPost(ctx, NetErr)
    /\ postResp' = Some(NetErr)
    /\ pc' = "done"
    /\ UNCHANGED <<disk, plugin, newErr, marks, posts, phpVersion, lookup, ctxDone, prev,
                   others>>

\* the context the caller passed to Validate expires while the lookup is in flight.
\* The request is built on context.Background(), so the call does not notice.
CallerTimeout ==
    /\ pc = "lookup"
    /\ ctxDone = "no"
    /\ ctxDone' = "lookup"
    /\ UNCHANGED <<disk, plugin, newErr, ctx, pc, marks, posts, postResp, phpVersion, lookup,
                   prev, others>>

\* the manifest with its version added or removed
ToggleVersion(d) ==
    IF d.json.kind # "object" THEN d
    ELSE IF "version" \in DOMAIN d.json.obj
    THEN [d EXCEPT !.json.obj = Drop(@, "version")]
    ELSE [d EXCEPT !.json.obj = Put(@, "version", "1.0.0")]

\* the next discovery pass, after the version was edited or with the directory unchanged
NextPass ==
    /\ pc \in {"done", "skipped"}
    /\ \E edit \in BOOLEAN : disk' = IF edit THEN ToggleVersion(disk) ELSE disk
    /\ prev' = IF pc = "done"
               THEN Some([composer |-> Deref(plugin).composer,
                          files |-> disk.files,
                          errors |-> SubSeq(ctx.errors, 1, marks.structural)])
               ELSE prev
    /\ plugin' = None
    /\ newErr' = Nil
    /\ ctx' = EmptyCtx
    /\ pc' = "init"
    /\ marks' = NoMarks
    /\ posts' = 0
    /\ postResp' = None
    /\ phpVersion' = None
    /\ lookup' = "none"
    /\ ctxDone' = "no"
    /\ UNCHANGED others

Next ==
    \/ Construct
    \/ ValidateStart
    \/ LookupAnswers
    \/ LookupFails
    \/ PostAnswers
    \/ PostFails
    \/ CallerTimeout
    \/ NextPass

Spec == Init /\ [][Next]_vars

(***************************************************************************)
(* Claims about the validation run.                                         *)
(***************************************************************************)
\* the structural tier has run in this pass
Validated == pc \in {"lookup", "post", "done"}

\* what the tiers of this pass appended
StructuralTierErrors == SubSeq(ctx.errors, 1, marks.structural)
RemoteErrors == SubSeq(ctx.errors, marks.theme + 1, Len(ctx.errors))
RemoteWarnings == SubSeq(ctx.warnings, marks.warnings + 1, Len(ctx.warnings))

Count(q, x) == Cardinality({i \in 1..Len(q) : q[i] = x})
Without(q, x) == SelectSeq(q, LAMBDA y : y # x)

\* the checker's body is a JSON document that fits {"errors": [string, ...]}
Decodes(body) ==
    \/ body.kind = "null"
    \/ /\ body.kind = "object"
       /\ "errors" \in DOMAIN body.obj => body.obj["errors"].type \in {"null", "list"}

\* the strings of its "errors" list
ErrorList(body) ==
    IF body.kind = "object" /\ "errors" \in DOMAIN body.obj
    THEN body.obj["errors"].list
    ELSE <<>>

\* the failure points of the remote tier
ResolutionFailed == pc = "done" /\ lookup = "none"
LookupFailed == pc = "done" /\ lookup \in {"neterr", "answered"} /\ IsNil(phpVersion)
RequestFailed == pc = "done" /\ ~IsNil(phpVersion) /\ posts = 0
SendFailed == pc = "done" /\ ~IsNil(postResp) /\ Deref(postResp).err # Nil
DecodeFailed ==
    /\ pc = "done" /\ ~IsNil(postResp)
    /\ Deref(postResp).err = Nil
    /\ Deref(postResp).status # StatusOK
    /\ ~Decodes(Deref(postResp).body)
SyntaxErrorsReported ==
    /\ pc = "done" /\ ~IsNil(postResp)
    /\ Deref(postResp).err = Nil
    /\ Deref(postResp).status # StatusOK
    /\ Decodes(Deref(postResp).body)
    /\ RemoteErrors = ErrorList(Deref(postResp).body)

OneWarningNoError == Len(RemoteWarnings) = 1 /\ RemoteErrors = <<>>

ResolutionMessages ==
    {"Could not parse shopware version constraint: " \o e :
        e \in {"require.shopware/core is required", "Malformed constraint"}}

\* C2 (as claimed): every failure inside the remote tier, the resolution of the extension's
\* constraint included, appends one warning and no error; the only errors the tier appends
\* are the syntax errors decoded from a non-200 response.
C2_Original ==
    Validated =>
        /\ (ResolutionFailed \/ LookupFailed \/ RequestFailed \/ SendFailed \/ DecodeFailed)
                => OneWarningNoError
        /\ RemoteErrors # <<>> => SyntaxErrorsReported

\* C2 (amended): a failed interpreter-version lookup, a request that cannot be built, a POST
\* that fails and a response that does not decode each append one warning and no error;
\* a failure to resolve the extension's version constraint appends one error ("Could not parse
\* shopware version constraint: ...") and no warning, and no remote call is made; the
\* errors the tier appends are that one error or the syntax errors of a non-200 response.
C2_Amended ==
    Validated =>
        /\ (LookupFailed \/ RequestFailed \/ SendFailed \/ DecodeFailed) => OneWarningNoError
        /\ ResolutionFailed =>
                /\ Len(RemoteErrors) = 1 /\ RemoteErrors[1] \in ResolutionMessages
                /\ RemoteWarnings = <<>>
                /\ posts = 0 /\ IsNil(postResp)
        /\ RemoteErrors # <<>> => (ResolutionFailed \/ SyntaxErrorsReported)

\* C2 witness: the lookup failed at the network level and the run ended with its warning
C2_Witness == LookupFailed /\ lookup = "neterr" /\ OneWarningNoError

\* C3: when the lookup fails at the network level, or the caller's timeout expires while
\* it is pending, the tier has returned with one warning, no error and no POST.
C3_TimeoutLikeFailure ==
    (lookup = "neterr" \/ ctxDone = "lookup") =>
        (pc = "done" /\ OneWarningNoError /\ posts = 0)

\* C4: the tier's errors are a function of the checker's response: nothing for a 200, the
\* decoded strings in order and no warning for a non-200 that decodes, one warning and no
\* error for a non-200 that does not decode.
C4_ErrorsFollowResponse ==
    (pc = "done" /\ ~IsNil(postResp) /\ Deref(postResp).err = Nil) =>
        LET resp == Deref(postResp)
        IN  /\ resp.status = StatusOK => (RemoteErrors = <<>> /\ RemoteWarnings = <<>>)
            /\ (resp.status # StatusOK /\ Decodes(resp.body)) =>
                    (RemoteErrors = ErrorList(resp.body) /\ RemoteWarnings = <<>>)
            /\ (resp.status # StatusOK /\ ~Decodes(resp.body)) => OneWarningNoError

\* C4 witness: a 422 with {"errors": ["Parse error on line 3"]} appended that one error
C4_Witness ==
    /\ pc = "done" /\ ~IsNil(postResp)
    /\ Deref(postResp).err = Nil
    /\ Deref(postResp).status = 422
    /\ ErrorList(Deref(postResp).body) = <<"Parse error on line 3">>
    /\ RemoteErrors = <<"Parse error on line 3">>

\* the required fields of the manifest: the message of each and whether it is missing
RequiredFields(c, files) ==
    {[msg |-> KeyRequired("name"), missing |-> c.Name = ""],
     [msg |-> KeyRequired("type"), missing |-> c.Type = ""],
     [msg |-> "The composer type must be shopware-platform-plugin",
      missing |-> c.Type # "" /\ c.Type # ComposerTypePlugin],
     [msg |-> KeyRequired("description"), missing |-> c.Description = ""],
     [msg |-> KeyRequired("license"), missing |-> c.License = ""],
     [msg |-> KeyRequired("version"), missing |-> c.Version = ""],
     [msg |-> KeyRequired("authors"), missing |-> c.Authors = <<>>],
     [msg |-> KeyRequired("require"), missing |-> DOMAIN c.Require = {}],
     [msg |-> "You need to require \"shopware/core\" package",
      missing |-> DOMAIN c.Require # {} /\ "shopware/core" \notin DOMAIN c.Require],
     [msg |-> "At least one of the properties psr-0 or psr-4 are required in the composer.json",
      missing |-> DOMAIN c.Autoload.Psr0 = {} /\ DOMAIN c.Autoload.Psr4 = {}],
     [msg |-> "The plugin icon " \o DefaultIcon \o " does not exist",
      missing |-> c.Extra.PluginIcon = "" /\ DefaultIcon \notin files],
     [msg |-> "The plugin icon " \o CustomIcon \o " does not exist",
      missing |-> c.Extra.PluginIcon = CustomIcon /\ CustomIcon \notin files]}
    \cup {[msg |-> "extra.label for language " \o l \o " is required",
           missing |-> l \notin DOMAIN c.Extra.Label] : l \in {"de-DE", "en-GB"}}
    \cup {[msg |-> "extra.description for language " \o l \o " is required",
           missing |-> l \notin DOMAIN c.Extra.Description] : l \in {"de-DE", "en-GB"}}
    \cup {[msg |-> "extra.manufacturerLink for language " \o l \o " is required",
           missing |-> l \notin DOMAIN c.Extra.ManufacturerLink] : l \in {"de-DE", "en-GB"}}
    \cup {[msg |-> "extra.supportLink for language " \o l \o " is required",
           missing |-> l \notin DOMAIN c.Extra.SupportLink] : l \in {"de-DE", "en-GB"}}

\* two manifests that differ only in the second one having no version
OnlyVersionRemoved(with, without) ==
    with.Version # "" /\ without = [with EXCEPT !.Version = ""]

VersionRemoved(listWith, listWithout) ==
    /\ Count(listWithout, KeyRequired("version")) = 1
    /\ Count(listWith, KeyRequired("version")) = 0
    /\ Without(listWithout, KeyRequired("version")) = listWith

\* C5: the structural tier appends one error for each required field that is missing, none
\* for one that is present, and no warning; of two passes over manifests that differ only in
\* the version being empty, the list of the one without version is the other's list with one
\* entry naming version added; two passes over the same manifest give the same list.
C5_StructuralTier ==
    Validated =>
        LET c == Deref(plugin).composer
            fields == RequiredFields(c, disk.files)
        IN  /\ \A f \in fields :
                    Count(StructuralTierErrors, f.msg) = IF f.missing THEN 1 ELSE 0
            /\ Len(StructuralTierErrors) = Cardinality({f \in fields : f.missing})
            /\ marks.warnings = 0
            /\ ~IsNil(prev) =>
                    LET before == Deref(prev)
                    IN  /\ (before.files = disk.files /\ OnlyVersionRemoved(before.composer, c))
                            => VersionRemoved(before.errors, StructuralTierErrors)
                        /\ (before.files = disk.files /\ OnlyVersionRemoved(c, before.composer))
                            => VersionRemoved(StructuralTierErrors, before.errors)
                        /\ (before.files = disk.files /\ before.composer = c)
                            => StructuralTierErrors = before.errors

\* C5 witness: the version was removed between two passes over a manifest with other fields
\* missing before and after it in the checking order
C5_Witness ==
    /\ Validated /\ ~IsNil(prev)
    /\ Deref(prev).files = disk.files
    /\ OnlyVersionRemoved(Deref(prev).composer, Deref(plugin).composer)
    /\ Len(Deref(prev).errors) >= 2
    /\ StructuralTierErrors[1] # KeyRequired("version")
    /\ StructuralTierErrors[Len(StructuralTierErrors)] # KeyRequired("version")

\* the type the manifest on disk declares
DiskType == IF disk.json.kind = "object" THEN Field(disk.json.obj, "type", "") ELSE ""

\* C9: every plugin newPlatformPlugin returns has the composer type of a platform plugin, so
\* Validate appends neither of the two type errors; a manifest with a missing or different
\* type fails construction and is never validated.
C9_TypeChecked ==
    /\ ~IsNil(plugin) => Deref(plugin).composer.Type = ComposerTypePlugin
    /\ \A i \in 1..Len(ctx.errors) :
            ctx.errors[i] \notin {KeyRequired("type"),
                                  "The composer type must be shopware-platform-plugin"}
    /\ (pc \notin {"init", "idle"} /\ DiskType # ComposerTypePlugin) =>
            (IsNil(plugin) /\ newErr # Nil /\ pc = "skipped" /\ ctx = EmptyCtx)

\* C9 witness: a constructed plugin was validated and collected errors, none about the type
C9_Witness == pc = "done" /\ ~IsNil(plugin) /\ Len(ctx.errors) >= 2

(***************************************************************************)
(* SpecPhpVersion: getPhpVersion on lookup tables of up to MaxTable entries *)
(* under every iteration order.                                             *)
(***************************************************************************)
LookupAnswersAll ==
    {NetErr, Answer(StatusOK, [kind |-> "malformed"])}
    \cup {Answer(StatusOK, [kind |-> "object", obj |-> t]) : t \in Tables(MaxTable)}

UsableConstraints == {NewConstraint(c).constraint : c \in {c \in ConstraintStrings : Usable(c)}}

InitPhpVersion ==
    /\ ValidateIdle /\ MethodsIdle /\ CfgIdle /\ CmdIdle
    /\ phpIn \in {Some([resp |-> r, constraint |-> c]) :
                    r \in LookupAnswersAll, c \in UsableConstraints}
    /\ phpRes = None

CallGetPhpVersion ==
    /\ ~IsNil(phpIn)
    /\ IsNil(phpRes)
    /\ \E order \in OrdersOf(Deref(phpIn).resp) :
         phpRes' = Some(getPhpVersion(Deref(phpIn).resp, Deref(phpIn).constraint, order))
    /\ UNCHANGED <<validateVars, constraintRes, nameRes, phpIn, cfgVars, cmdVars>>

NextPhpVersion == CallGetPhpVersion

SpecPhpVersion == InitPhpVersion /\ [][NextPhpVersion]_vars

\* the key parses as a version that satisfies the constraint
Satisfies(key, constraint) == NewVersion(key).ok /\ Check(constraint, NewVersion(key).v)

\* C7: getPhpVersion returns a version only if some key of the table parses, satisfies the
\* constraint and maps to it; it returns "could not find php version ..." iff no key that
\* parses satisfies the constraint; for >=6.5,<6.6 and {6.5.0: 8.1, 6.6.0: 8.2} it returns 8.1.
C7_PhpVersion ==
    (~IsNil(phpRes) /\ Deref(phpIn).resp.err = Nil /\ Deref(phpIn).resp.body.kind = "object") =>
        LET table == Deref(phpIn).resp.body.obj
            constraint == Deref(phpIn).constraint
            r == Deref(phpRes)
        IN  /\ r.err = Nil =>
                    \E k \in DOMAIN table : Satisfies(k, constraint) /\ table[k] = r.v
            /\ r.err # Nil <=> ~\E k \in DOMAIN table : Satisfies(k, constraint)
            /\ r.err # Nil => r.err = "could not find php version for shopware version"
            /\ (constraint = NewConstraint(GE65_LT66).constraint
                    /\ table = (V650 :> P81 @@ V660 :> P82))
                => (r.err = Nil /\ r.v = P81)

\* C7 witness: the scenario of the specification, resolved to 8.1
C7_Witness ==
    /\ ~IsNil(phpRes)
    /\ Deref(phpIn).resp.err = Nil
    /\ Deref(phpIn).resp.body = [kind |-> "object", obj |-> (V650 :> P81 @@ V660 :> P82)]
    /\ Deref(phpIn).constraint = NewConstraint(GE65_LT66).constraint
    /\ Deref(phpRes) = [v |-> P81, err |-> Nil]

(***************************************************************************)
(* shop.ReadConfig.                                                         *)
(***************************************************************************)
\* the lines a configuration file is made of, and the environment they are expanded in
ConfigLines == {"url: shop", "build: {}", "build: null", "null", "text", "{", "$UNSET", "${DOC}"}
DocValues == {"null", "url: shop"}

\* os.ExpandEnv on one line: $UNSET is not set, ${DOC} is
ExpandLine(line, env) ==
    CASE line = "$UNSET" -> ""
      [] line = "${DOC}" -> env
      [] OTHER -> line

ExpandEnv(lines, env) == [i \in 1..Len(lines) |-> ExpandLine(lines[i], env)]

MappingLines == {"url: shop", "build: {}", "build: null"}
KeyOf(line) == IF line = "url: shop" THEN "url" ELSE "build"

\* the document yaml.v3 parses from the text: none, a scalar, a mapping, or a syntax error.
\* A "{" that starts the document opens a flow mapping that is never closed. Plain words on
\* several lines are one string, and a "{" on a later line of a plain scalar is part of it.
ParseYaml(lines) ==
    LET text == SelectSeq(lines, LAMBDA l : l # "")
    IN  IF text = <<>> THEN [kind |-> "none"]
        ELSE IF text[1] = "{" THEN [kind |-> "syntax"]
        ELSE IF \A i \in 1..Len(text) : text[i] \in MappingLines
        THEN IF \E i, j \in 1..Len(text) : i # j /\ KeyOf(text[i]) = KeyOf(text[j])
             THEN [kind |-> "syntax"]
             ELSE [kind |-> "mapping", entries |-> {text[i] : i \in 1..Len(text)}]
        ELSE IF \E i \in 1..Len(text) : text[i] \in MappingLines THEN [kind |-> "syntax"]
        ELSE IF text = <<"null">> THEN [kind |-> "null"]
        ELSE [kind |-> "string"]

ZeroConfig == [URL |-> "", Build |-> None]
ZeroConfigBuild == [DisableAssetCopy |-> FALSE]

\* yaml.Unmarshal(text, &config) with config a *Config: the target is the pointer itself, so
\* a null document sets it to nil, and no document leaves it as it is
yamlUnmarshal(lines, config) ==
    LET doc == ParseYaml(lines)
    IN  CASE doc.kind = "none" -> [err |-> Nil, config |-> config]
          [] doc.kind = "syntax" -> [err |-> "yaml: did not find expected node content",
                                     config |-> config]
          [] doc.kind = "null" -> [err |-> Nil, config |-> None]
          [] doc.kind = "string" ->
                [err |-> "yaml: unmarshal errors: cannot unmarshal !!str into shop.Config",
                 config |-> config]
          [] doc.kind = "mapping" ->
                [err |-> Nil,
                 config |-> Some([URL |-> IF "url: shop" \in doc.entries THEN "shop"
                                          ELSE Deref(config).URL,
                                  Build |-> IF "build: {}" \in doc.entries
                                            THEN Some(ZeroConfigBuild)
                                            ELSE IF "build: null" \in doc.entries THEN None
                                            ELSE Deref(config).Build])]

\* fillEmptyConfig: c.Build is read through c, which panics when c is nil
fillEmptyConfig(c) ==
    IF IsNil(c) THEN [panic |-> TRUE, config |-> None]
    ELSE IF IsNil(Deref(c).Build)
    THEN [panic |-> FALSE, config |-> Some([Deref(c) EXCEPT !.Build = Some(ZeroConfigBuild)])]
    ELSE [panic |-> FALSE, config |-> c]

Returned(config, err) == [panic |-> FALSE, config |-> config, err |-> err]
Filled(f) == [panic |-> f.panic, config |-> f.config, err |-> Nil]

ReadConfig(in) ==
    LET config == Some(ZeroConfig)
    IN  IF in.stat = "no such file or directory"
        THEN IF in.allowFallback THEN Filled(fillEmptyConfig(config))
             ELSE Returned(None, "cannot find .shopware-project.yml, use shopware-cli project config init to create one")
        ELSE IF in.stat # Nil THEN Returned(None, in.stat)
        ELSE IF in.read # Nil THEN Returned(None, "ReadConfig: " \o in.read)
        ELSE LET substitutedConfig == ExpandEnv(in.lines, in.env)
                 y == yamlUnmarshal(substitutedConfig, config)
             IN  IF y.err # Nil THEN Returned(None, "ReadConfig: " \o y.err)
                 ELSE Filled(fillEmptyConfig(y.config))

ConfigInputs ==
    {[stat |-> st, read |-> rd, lines |-> ls, env |-> e, allowFallback |-> fb] :
        st \in {Nil, "no such file or directory", "permission denied"},
        rd \in {Nil, "is a directory"},
        ls \in SeqsUpTo(ConfigLines, MaxLines),
        e \in DocValues,
        fb \in BOOLEAN}

InitConfig ==
    /\ ValidateIdle /\ MethodsIdle /\ PhpIdle /\ CmdIdle
    /\ cfgIn \in {Some(in) : in \in ConfigInputs}
    /\ cfgRes = None

CallReadConfig ==
    /\ ~IsNil(cfgIn)
    /\ IsNil(cfgRes)
    /\ cfgRes' = Some(ReadConfig(Deref(cfgIn)))
    /\ UNCHANGED <<validateVars, constraintRes, nameRes, phpVars, cfgIn, cmdVars>>

NextConfig == CallReadConfig

SpecConfig == InitConfig /\ [][NextConfig]_vars

\* C10: ReadConfig returns exactly one of (config, nil) and (nil, error), every config it
\* returns has a Build section, a missing file gives the default config with fallback and an
\* error without, a file that parses (an empty or null document included) gives a config,
\* and it never fails other than by returning an error.
C10_ConfigOrError ==
    ~IsNil(cfgRes) =>
        LET in == Deref(cfgIn)
            r == Deref(cfgRes)
            doc == ParseYaml(ExpandEnv(in.lines, in.env))
        IN  /\ ~r.panic
            /\ \/ ~IsNil(r.config) /\ r.err = Nil /\ ~IsNil(Deref(r.config).Build)
               \/ IsNil(r.config) /\ r.err # Nil
            /\ in.stat = "no such file or directory" =>
                    IF in.allowFallback
                    THEN r.config = Some([ZeroConfig EXCEPT !.Build = Some(ZeroConfigBuild)])
                    ELSE IsNil(r.config)
            /\ (in.stat = Nil /\ in.read = Nil /\ doc.kind \in {"none", "null", "mapping"}) =>
                    ~IsNil(r.config)

(***************************************************************************)
(* SpecAdminBuild: the admin-build command.                                 *)
(***************************************************************************)
BuildOutcomes == {Nil, "npm run build: exit status 1"}

CommandInputs ==
    {[args |-> a, findErr |-> f, constraintErr |-> c, builds |-> b, installErr |-> i] :
        a \in {0, 1},
        f \in {Nil, "cannot find Shopware project in current directory"},
        c \in {Nil, "missing shopware/core requirement in composer.json"},
        b \in SeqsUpTo(BuildOutcomes, MaxExt),
        i \in {Nil, "exit status 1"}}

InitAdminBuild ==
    /\ ValidateIdle /\ MethodsIdle /\ PhpIdle /\ CfgIdle
    /\ cmdIn \in {Some(in) : in \in CommandInputs}
    /\ cmdPc = "start"
    /\ cmdLog = <<>>
    /\ cmdRes = None

\* RunE up to the call of BuildAssetsForExtensions: the error it returns, or Nil to go on
BeforeBuild(in) ==
    IF in.args # 1 /\ in.findErr # Nil THEN in.findErr
    ELSE IF in.constraintErr # Nil THEN in.constraintErr
    ELSE Nil

\* mutant: the result of BuildAssetsForExtensions is not looked at
AfterBuild_IgnoreError(err) == [return |-> FALSE, err |-> Nil]

\* RunE after BuildAssetsForExtensions returned err: return it, or go on to assets:install
AfterBuild(err) ==
    IF err # Nil THEN [return |-> TRUE, err |-> err] ELSE [return |-> FALSE, err |-> Nil]

\* RunE starts: project root, asset sources, project constraint, then the asset build
CommandStarts ==
    /\ cmdPc = "start"
    /\ LET err == BeforeBuild(Deref(cmdIn))
       IN  IF err # Nil
           THEN /\ cmdRes' = Some(err)
                /\ cmdPc' = "returned"
                /\ cmdLog' = cmdLog
           ELSE /\ cmdRes' = cmdRes
                /\ cmdPc' = "building"
                /\ cmdLog' = Append(cmdLog, "BuildAssetsForExtensions")
    /\ UNCHANGED <<validateVars, constraintRes, nameRes, phpVars, cfgVars, cmdIn>>

BuildsDone == Count(cmdLog, "build")

\* BuildAssetsForExtensions has returned err to RunE, the log of steps being log
BuildReturned(err, log) ==
    LET r == AfterBuild(err)
    IN  IF r.return
        THEN /\ cmdPc' = "returned"
             /\ cmdRes' = Some(r.err)
             /\ cmdLog' = log
        ELSE /\ cmdPc' = "installing"
             /\ cmdRes' = cmdRes
             /\ cmdLog' = Append(log, "assets:install")

\* BuildAssetsForExtensions builds the next extension; a failed build ends it with the error
BuildsExtension ==
    /\ cmdPc = "building"
    /\ BuildsDone < Len(Deref(cmdIn).builds)
    /\ LET outcome == Deref(cmdIn).builds[BuildsDone + 1]
           log == Append(cmdLog, "build")
       IN  IF outcome = Nil
           THEN cmdLog' = log /\ cmdPc' = cmdPc /\ cmdRes' = cmdRes
           ELSE BuildReturned(outcome, log)
    /\ UNCHANGED <<validateVars, constraintRes, nameRes, phpVars, cfgVars, cmdIn>>

\* BuildAssetsForExtensions returns nil after the last extension
BuildSucceeds ==
    /\ cmdPc = "building"
    /\ BuildsDone = Len(Deref(cmdIn).builds)
    /\ BuildReturned(Nil, cmdLog)
    /\ UNCHANGED <<validateVars, constraintRes, nameRes, phpVars, cfgVars, cmdIn>>

\* assets:install exits, and its result is what RunE returns
InstallExits ==
    /\ cmdPc = "installing"
    /\ cmdRes' = Some(Deref(cmdIn).installErr)
    /\ cmdPc' = "returned"
    /\ UNCHANGED <<validateVars, constraintRes, nameRes, phpVars, cfgVars, cmdIn, cmdLog>>

NextAdminBuild ==
    \/ CommandStarts
    \/ BuildsExtension
    \/ BuildSucceeds
    \/ InstallExits

SpecAdminBuild == InitAdminBuild /\ [][NextAdminBuild]_vars

\* what the inputs of the command decide
RootResolved(in) == in.args = 1 \/ in.findErr = Nil
BuildReached(in) == RootResolved(in) /\ in.constraintErr = Nil
Failing(in) == {i \in 1..Len(in.builds) : in.builds[i] # Nil}
FirstFailing(in) == CHOOSE i \in Failing(in) : \A j \in Failing(in) : i <= j
Installs == Count(cmdLog, "assets:install")

\* C6: assets:install is invoked only after the asset build returned without error: when
\* the project constraint cannot be resolved the command returns that error and neither
\* the build nor assets:install is started; when an extension's build fails the command
\* returns that error and assets:install is never invoked; when the build succeeds
\* assets:install runs exactly once and its result is the command's result.
C6_InstallAfterBuild ==
    cmdPc # "idle" =>
        LET in == Deref(cmdIn)
        IN  /\ Installs <= 1
            /\ Installs = 1 =>
                    (BuildReached(in) /\ Failing(in) = {} /\ BuildsDone = Len(in.builds))
            /\ (cmdPc = "returned" /\ RootResolved(in) /\ in.constraintErr # Nil) =>
                    (cmdRes = Some(in.constraintErr) /\ cmdLog = <<>>)
            /\ (cmdPc = "returned" /\ BuildReached(in) /\ Failing(in) # {}) =>
                    /\ cmdRes = Some(in.builds[FirstFailing(in)])
                    /\ Installs = 0
                    /\ BuildsDone = FirstFailing(in)
            /\ (cmdPc = "returned" /\ BuildReached(in) /\ Failing(in) = {}) =>
                    (Installs = 1 /\ cmdRes = Some(in.installErr))

\* C6 witness: of two extensions the second failed its build, and the command returned
\* that error without invoking assets:install
C6_Witness ==
    /\ cmdPc = "returned"
    /\ Len(Deref(cmdIn).builds) = 2
    /\ Failing(Deref(cmdIn)) = {2}
    /\ cmdRes = Some(Deref(cmdIn).builds[2])
    /\ Installs = 0

====
